---- MODULE Spec2Model ----
(***************************************************************************)
(* Match lifecycle, chess game session and clock accounting of the         *)
(* tournament manager (convex/matches.ts, convex/chess.ts) together with   *)
(* the client-side move rules of components/ChessGame.tsx.                 *)
(*                                                                         *)
(* Every Convex mutation runs as one serializable transaction, so each     *)
(* handler is one atomic action; a thrown Error rolls the transaction back *)
(* and is modelled as the action leaving both tables unchanged and         *)
(* recording the error message in `result`.                                *)
(***************************************************************************)
EXTENDS Integers, Sequences, FiniteSets, TLC

\* ------------------------------------------------------------------ bounds
MaxMatches == 1
MaxSessions == 2
MaxMoves == 2
MaxParticipants == 5
MaxGenerations == 2
MaxBracketMatches == 4
\* The seconds of countdown the component's timer is followed for.
MaxCountdown == 2
\* The moves the component is let submit.
MaxSubmissions == 1

\* ------------------------------------------------------- principals, time
\* getAuthUserId(ctx) returns null for an unauthenticated caller.
NoUser == "none"
Users == {"O", "X", "Y", "Z"}
Callers == Users \cup {NoUser}

\* v.optional(v.number()) fields (startTime, endTime) that are not set.
NoTime == -1
\* The values Date.now() (milliseconds) is observed to take.
Times == {1000, 3500}

\* The tournaments table as far as the handlers read it (ownerId, gameType).
tournaments ==
  (1 :> [ownerId |-> "O", gameType |-> "chess"]) @@
  (2 :> [ownerId |-> "O", gameType |-> "checkers"])

\* A v.id("matches") argument that names no stored document.
NoSuchMatch == 0

VARIABLES
  matches,     \* the matches table, in insertion order; a match's id is its index
  chessGames,  \* the chessGames table, in insertion order
  now,         \* the value the next Date.now() returns
  result,      \* what the last call returned: "ok", or the message of the Error it threw
               \* or of the toast.error that ended it
  participants, \* tournament.participants of the tournament on view, in registration order
  generating,  \* the generateFirstRound calls begun, each with its list and its loop index i
  client,      \* the state of the ChessGame component of one browser
  pieces       \* the ChessPiece objects of that browser's page, by object id

vars == <<matches, chessGames, now, result, participants, generating, client, pieces>>

\* ctx.db.get(matchId) finds a document.
MatchExists(m) == m \in 1..Len(matches)

\* A handler that throws: the transaction is rolled back.
Throw(msg) ==
  /\ result' = msg
  /\ UNCHANGED <<matches, chessGames, now>>

\* v.optional fields of a match that are not set.
NoScore == [undefined |-> TRUE]
NoGameData == [undefined |-> TRUE]

\* The wall clock moves between calls (Date.now() is not monotonic).
Tick(t) ==
  /\ t # now
  /\ now' = t
  /\ UNCHANGED <<matches, chessGames, result>>

\* ---------------------------------------------------------- matches.ts
createMatch(caller, tournamentId, round, matchNumber, player1Id, player2Id, startTime) ==
  IF caller = NoUser
    THEN Throw("Not authenticated")
  ELSE IF tournaments[tournamentId].ownerId # caller
    THEN Throw("Only tournament owners can create matches")
  ELSE
    /\ matches' = Append(matches,
         [tournamentId |-> tournamentId,
          round |-> round,
          matchNumber |-> matchNumber,
          player1Id |-> player1Id,
          player2Id |-> player2Id,
          status |-> "scheduled",
          startTime |-> startTime,
          winnerId |-> NoUser,
          endTime |-> NoTime,
          score |-> NoScore,
          gameData |-> NoGameData])
    /\ result' = "ok"
    /\ UNCHANGED <<chessGames, now>>

\* Faulty variant of NewStartedGame: black is to move first.
NewStartedGameBlackFirst(m) ==
  [matchId |-> m,
   fen |-> "rnbqkbnr/pppppppp/8/8/8/8/PPPPPPPP/RNBQKBNR w KQkq - 0 1",
   pgn |-> <<>>,
   currentPlayer |-> "black",
   gameStatus |-> "active",
   whitePlayerId |-> matches[m].player1Id,
   blackPlayerId |-> matches[m].player2Id,
   timeControl |-> [initialTime |-> 600, increment |-> 5],
   whiteTimeRemaining |-> 600,
   blackTimeRemaining |-> 600,
   lastMoveTime |-> now,
   gameData |-> NoGameData]

\* Faulty variant of NewStartedGame: the game starts on the 300 second clock without
\* increment.
NewStartedGameNoIncrement(m) ==
  [matchId |-> m,
   fen |-> "rnbqkbnr/pppppppp/8/8/8/8/PPPPPPPP/RNBQKBNR w KQkq - 0 1",
   pgn |-> <<>>,
   currentPlayer |-> "white",
   gameStatus |-> "active",
   whitePlayerId |-> matches[m].player1Id,
   blackPlayerId |-> matches[m].player2Id,
   timeControl |-> [initialTime |-> 300, increment |-> 0],
   whiteTimeRemaining |-> 300,
   blackTimeRemaining |-> 300,
   lastMoveTime |-> now,
   gameData |-> NoGameData]

\* The chessGames document startMatch inserts.
NewStartedGame(m) ==
  [matchId |-> m,
   fen |-> "rnbqkbnr/pppppppp/8/8/8/8/PPPPPPPP/RNBQKBNR w KQkq - 0 1",
   pgn |-> <<>>,
   currentPlayer |-> "white",
   gameStatus |-> "active",
   whitePlayerId |-> matches[m].player1Id,
   blackPlayerId |-> matches[m].player2Id,
   timeControl |-> [initialTime |-> 600, increment |-> 5],
   whiteTimeRemaining |-> 600,
   blackTimeRemaining |-> 600,
   lastMoveTime |-> now,
   gameData |-> NoGameData]

startMatch(caller, m) ==
  IF caller = NoUser
    THEN Throw("Not authenticated")
  ELSE IF ~MatchExists(m)
    THEN Throw("Match not found")
  ELSE IF /\ tournaments[matches[m].tournamentId].ownerId # caller
          /\ matches[m].player1Id # caller
          /\ matches[m].player2Id # caller
    THEN Throw("Not authorized to start this match")
  ELSE
    /\ matches' = [matches EXCEPT ![m].status = "active", ![m].startTime = now]
    /\ IF tournaments[matches[m].tournamentId].gameType = "chess"
         THEN /\ Len(chessGames) < MaxSessions
              /\ chessGames' = Append(chessGames, NewStartedGame(m))
         ELSE UNCHANGED chessGames
    /\ result' = "ok"
    /\ UNCHANGED now

endMatch(caller, m, winnerId, score) ==
  IF caller = NoUser
    THEN Throw("Not authenticated")
  ELSE IF ~MatchExists(m)
    THEN Throw("Match not found")
  ELSE IF tournaments[matches[m].tournamentId].ownerId # caller
    THEN Throw("Only tournament owners can end matches")
  ELSE
    /\ matches' = [matches EXCEPT ![m].status = "completed",
                                  ![m].winnerId = winnerId,
                                  ![m].endTime = now,
                                  ![m].score = score]
    /\ result' = "ok"
    /\ UNCHANGED <<chessGames, now>>

\* ------------------------------------------------- components/ChessGame.tsx
\* A square holding no piece (null).
Null == [type |-> "null"]

\* A ChessPiece on its initial square; hasMoved is not set (FALSE).
Piece(type, color, row, col) ==
  [type |-> type, color |-> color, position |-> [row |-> row, col |-> col], hasMoved |-> FALSE]

BackRank == <<"rook", "knight", "bishop", "queen", "king", "bishop", "knight", "rook">>

\* board[row + 1][col + 1] is the source's board[row][col].
initialBoard ==
  [r \in 1..8 |->
     [c \in 1..8 |->
        CASE r = 1 -> Piece(BackRank[c], "black", 0, c - 1)
          [] r = 2 -> Piece("pawn", "black", 1, c - 1)
          [] r = 7 -> Piece("pawn", "white", 6, c - 1)
          [] r = 8 -> Piece(BackRank[c], "white", 7, c - 1)
          [] OTHER -> Null]]

At(board, pos) == board[pos.row + 1][pos.col + 1]

Abs(x) == IF x < 0 THEN -x ELSE x

Sign(x) == IF x > 0 THEN 1 ELSE IF x < 0 THEN -1 ELSE 0

\* The while loop of isPathClear, from square (row, col) on.
RECURSIVE PathClearFrom(_, _, _, _, _, _)
PathClearFrom(board, row, col, to, rowStep, colStep) ==
  IF row = to.row /\ col = to.col THEN TRUE
  ELSE IF board[row + 1][col + 1] # Null THEN FALSE
  ELSE PathClearFrom(board, row + rowStep, col + colStep, to, rowStep, colStep)

\* Faulty variant of isPathClear: the squares between are not looked at.
isPathClearUnchecked(board, from, to) == TRUE

isPathClear(board, from, to) ==
  LET rowStep == Sign(to.row - from.row)
      colStep == Sign(to.col - from.col)
  IN  PathClearFrom(board, from.row + rowStep, from.col + colStep, to, rowStep, colStep)

\* Faulty variant of isValidMove: a pawn may advance two squares from any rank.
isValidMovePawnAnyRank(board, from, to) ==
  LET piece == At(board, from)
      targetPiece == At(board, to)
      rowDiff == Abs(to.row - from.row)
      colDiff == Abs(to.col - from.col)
      direction == IF piece.color = "white" THEN -1 ELSE 1
      startRow == IF piece.color = "white" THEN 6 ELSE 1
  IN  IF piece = Null THEN FALSE
      ELSE IF targetPiece # Null /\ targetPiece.color = piece.color THEN FALSE
      ELSE CASE piece.type = "pawn" ->
                  IF colDiff = 0
                    THEN IF targetPiece # Null THEN FALSE
                         ELSE IF from.row + direction = to.row THEN TRUE
                         ELSE from.row + 2 * direction = to.row
                  ELSE IF colDiff = 1 /\ from.row + direction = to.row
                    THEN targetPiece # Null
                  ELSE FALSE
             [] piece.type = "rook" ->
                  (rowDiff = 0 \/ colDiff = 0) /\ isPathClear(board, from, to)
             [] piece.type = "bishop" ->
                  rowDiff = colDiff /\ isPathClear(board, from, to)
             [] piece.type = "queen" ->
                  (rowDiff = 0 \/ colDiff = 0 \/ rowDiff = colDiff) /\ isPathClear(board, from, to)
             [] piece.type = "knight" ->
                  (rowDiff = 2 /\ colDiff = 1) \/ (rowDiff = 1 /\ colDiff = 2)
             [] piece.type = "king" ->
                  rowDiff <= 1 /\ colDiff <= 1
             [] OTHER -> FALSE

\* Faulty variant of isValidMove: a king may move any distance along one axis.
isValidMoveKingEitherAxis(board, from, to) ==
  LET piece == At(board, from)
      targetPiece == At(board, to)
      rowDiff == Abs(to.row - from.row)
      colDiff == Abs(to.col - from.col)
      direction == IF piece.color = "white" THEN -1 ELSE 1
      startRow == IF piece.color = "white" THEN 6 ELSE 1
  IN  IF piece = Null THEN FALSE
      ELSE IF targetPiece # Null /\ targetPiece.color = piece.color THEN FALSE
      ELSE CASE piece.type = "pawn" ->
                  IF colDiff = 0
                    THEN IF targetPiece # Null THEN FALSE
                         ELSE IF from.row + direction = to.row THEN TRUE
                         ELSE from.row = startRow /\ from.row + 2 * direction = to.row
                  ELSE IF colDiff = 1 /\ from.row + direction = to.row
                    THEN targetPiece # Null
                  ELSE FALSE
             [] piece.type = "rook" ->
                  (rowDiff = 0 \/ colDiff = 0) /\ isPathClear(board, from, to)
             [] piece.type = "bishop" ->
                  rowDiff = colDiff /\ isPathClear(board, from, to)
             [] piece.type = "queen" ->
                  (rowDiff = 0 \/ colDiff = 0 \/ rowDiff = colDiff) /\ isPathClear(board, from, to)
             [] piece.type = "knight" ->
                  (rowDiff = 2 /\ colDiff = 1) \/ (rowDiff = 1 /\ colDiff = 2)
             [] piece.type = "king" ->
                  rowDiff <= 1 \/ colDiff <= 1
             [] OTHER -> FALSE

isValidMove(board, from, to) ==
  LET piece == At(board, from)
      targetPiece == At(board, to)
      rowDiff == Abs(to.row - from.row)
      colDiff == Abs(to.col - from.col)
      direction == IF piece.color = "white" THEN -1 ELSE 1
      startRow == IF piece.color = "white" THEN 6 ELSE 1
  IN  IF piece = Null THEN FALSE
      ELSE IF targetPiece # Null /\ targetPiece.color = piece.color THEN FALSE
      ELSE CASE piece.type = "pawn" ->
                  IF colDiff = 0
                    THEN IF targetPiece # Null THEN FALSE
                         ELSE IF from.row + direction = to.row THEN TRUE
                         ELSE from.row = startRow /\ from.row + 2 * direction = to.row
                  ELSE IF colDiff = 1 /\ from.row + direction = to.row
                    THEN targetPiece # Null
                  ELSE FALSE
             [] piece.type = "rook" ->
                  (rowDiff = 0 \/ colDiff = 0) /\ isPathClear(board, from, to)
             [] piece.type = "bishop" ->
                  rowDiff = colDiff /\ isPathClear(board, from, to)
             [] piece.type = "queen" ->
                  (rowDiff = 0 \/ colDiff = 0 \/ rowDiff = colDiff) /\ isPathClear(board, from, to)
             [] piece.type = "knight" ->
                  (rowDiff = 2 /\ colDiff = 1) \/ (rowDiff = 1 /\ colDiff = 2)
             [] piece.type = "king" ->
                  rowDiff <= 1 /\ colDiff <= 1
             [] OTHER -> FALSE

\* newBoard of handleSquareClick: the piece of `from` put on `to`, `from` cleared.
MovedBoard(board, from, to) ==
  LET piece == At(board, from)
      moved == IF piece = Null THEN Null
               ELSE [piece EXCEPT !.position = to, !.hasMoved = TRUE]
  IN  IF piece = Null THEN board
      ELSE [r \in 1..8 |->
              [c \in 1..8 |->
                 IF r = to.row + 1 /\ c = to.col + 1 THEN moved
                 ELSE IF r = from.row + 1 /\ c = from.col + 1 THEN Null
                 ELSE board[r][c]]]

Files == <<"a", "b", "c", "d", "e", "f", "g", "h">>

\* Faulty variant of SquareName: the rank counted from the top of the board.
SquareNameRankFromTop(pos) == Files[pos.col + 1] \o ToString(pos.row + 1)

\* `${String.fromCharCode(97 + col)}${8 - row}`
SquareName(pos) == Files[pos.col + 1] \o ToString(8 - pos.row)

\* The board and move history the client holds after loading a game's gameData.
LoadedBoard(gameData) ==
  IF "board" \in DOMAIN gameData THEN gameData.board ELSE initialBoard

LoadedHistory(gameData) ==
  IF "moveHistory" \in DOMAIN gameData THEN gameData.moveHistory ELSE <<>>

\* The gameData handleSquareClick submits with a move (JSON of newBoard, newMoveHistory).
ClientGameData(gameData, from, to) ==
  [board |-> MovedBoard(LoadedBoard(gameData), from, to),
   moveHistory |-> Append(LoadedHistory(gameData),
                          SquareName(from) \o "-" \o SquareName(to))]

\* ------------------------------------------ components/ChessGame.tsx (state)
\* The ChessGame component of one browser, mounted by MatchView for match 1.
\* A board is an array of rows of references to ChessPiece objects: here an
\* 8 x 8 matrix of object ids, 0 for null, and `pieces` maps an id to the object.
ViewedMatch == 1

\* selectedSquare === null
NoSquare == [row |-> -1, col |-> -1]

\* useQuery(api.chess.getChessGame) has delivered nothing yet.
NoDoc == [undefined |-> TRUE]

Squares == {[row |-> r, col |-> c] : r \in 0..7, c \in 0..7}

\* Ids 1..32 are the objects of the module-level initialBoard, ids 33..96 the
\* objects of the board the last JSON.parse produced (one per square).
PieceIds == 1..96

InitialId(row, col) == (IF row <= 1 THEN row ELSE row - 4) * 8 + col + 1

ParsedId(row, col) == 33 + row * 8 + col

\* The module-level constant initialBoard, as references.
initialBoardRefs ==
  [r \in 1..8 |->
     [c \in 1..8 |-> IF initialBoard[r][c] = Null THEN 0 ELSE InitialId(r - 1, c - 1)]]

\* The objects the module creates when it is loaded.
InitialPieces ==
  [id \in PieceIds |->
     IF id <= 32
       THEN initialBoard[(IF id <= 16 THEN (id - 1) \div 8 ELSE (id - 1) \div 8 + 4) + 1]
                        [((id - 1) % 8) + 1]
       ELSE Null]

\* What a board of references shows: the object behind each reference.
Deref(heap, refs) ==
  [r \in 1..8 |-> [c \in 1..8 |-> IF refs[r][c] = 0 THEN Null ELSE heap[refs[r][c]]]]

\* JSON.parse of a stored board: fresh objects, one per occupied square.
ParsedRefs(board) ==
  [r \in 1..8 |-> [c \in 1..8 |-> IF board[r][c] = Null THEN 0 ELSE ParsedId(r - 1, c - 1)]]

ParsedPieces(heap, board) ==
  [id \in PieceIds |->
     IF id <= 32 THEN heap[id]
     ELSE board[((id - 33) \div 8) + 1][((id - 33) % 8) + 1]]

\* The component before MatchView renders it.
NotMounted == [mounted |-> FALSE]

\* The board the component shows.
ClientBoard == Deref(pieces, client.board)

\* ------------------------------------------------------------- chess.ts
\* .query("chessGames").withIndex("by_match", q => q.eq("matchId", m)).first():
\* the index of the oldest game of match m, 0 when there is none.
FirstGame(m) ==
  IF \E i \in 1..Len(chessGames) : chessGames[i].matchId = m
    THEN CHOOSE i \in 1..Len(chessGames) :
           /\ chessGames[i].matchId = m
           /\ \A j \in 1..(i - 1) : chessGames[j].matchId # m
    ELSE 0

initializeChessGame(caller, m, whitePlayerId, blackPlayerId, timeControl) ==
  IF caller = NoUser
    THEN Throw("Not authenticated")
  ELSE IF FirstGame(m) # 0
    THEN Throw("Chess game already exists for this match")
  ELSE
    /\ Len(chessGames) < MaxSessions
    /\ chessGames' = Append(chessGames,
         [matchId |-> m,
          fen |-> "rnbqkbnr/pppppppp/8/8/8/8/PPPPPPPP/RNBQKBNR w KQkq - 0 1",
          pgn |-> <<>>,
          currentPlayer |-> "white",
          gameStatus |-> "active",
          whitePlayerId |-> whitePlayerId,
          blackPlayerId |-> blackPlayerId,
          timeControl |-> timeControl,
          whiteTimeRemaining |-> timeControl.initialTime,
          blackTimeRemaining |-> timeControl.initialTime,
          lastMoveTime |-> now,
          gameData |-> NoGameData])
    /\ result' = "ok"
    /\ UNCHANGED <<matches, now>>

Max(a, b) == IF a >= b THEN a ELSE b

\* now - (chessGame.lastMoveTime || now)
TimeSinceLastMove(lastMoveTime) ==
  now - (IF lastMoveTime = 0 THEN now ELSE lastMoveTime)

\* Faulty variant of NewTimeRemaining: the increment added after the clamp at zero.
NewTimeRemainingIncrementAfterClamp(remaining, timeSinceLastMove, increment) ==
  Max(0, remaining - (timeSinceLastMove \div 1000)) + increment

\* Math.max(0, remaining - Math.floor(timeSinceLastMove / 1000) + increment)
NewTimeRemaining(remaining, timeSinceLastMove, increment) ==
  Max(0, remaining - (timeSinceLastMove \div 1000) + increment)

\* Faulty variant of MovedGame: the turn is not handed over.
MovedGameNoFlip(g, from, to, gameData) ==
  [g EXCEPT
     !.whiteTimeRemaining =
        IF g.currentPlayer = "white"
          THEN NewTimeRemaining(@, TimeSinceLastMove(g.lastMoveTime), g.timeControl.increment)
          ELSE @,
     !.blackTimeRemaining =
        IF g.currentPlayer = "white"
          THEN @
          ELSE NewTimeRemaining(@, TimeSinceLastMove(g.lastMoveTime), g.timeControl.increment),
     !.lastMoveTime = now,
     !.pgn = Append(g.pgn, SquareName(from) \o SquareName(to)),
     !.gameData = gameData]

\* Faulty variant of MovedGame: both clocks are charged for the move.
MovedGameBothClocks(g, from, to, gameData) ==
  [g EXCEPT
     !.currentPlayer = IF g.currentPlayer = "white" THEN "black" ELSE "white",
     !.whiteTimeRemaining =
        NewTimeRemaining(@, TimeSinceLastMove(g.lastMoveTime), g.timeControl.increment),
     !.blackTimeRemaining =
        NewTimeRemaining(@, TimeSinceLastMove(g.lastMoveTime), g.timeControl.increment),
     !.lastMoveTime = now,
     !.pgn = Append(g.pgn, SquareName(from) \o SquareName(to)),
     !.gameData = gameData]

\* The fields makeMove patches on the chess game.
MovedGame(g, from, to, gameData) ==
  LET white == g.currentPlayer = "white"
      timeSinceLastMove == TimeSinceLastMove(g.lastMoveTime)
  IN  [g EXCEPT
         !.currentPlayer = IF white THEN "black" ELSE "white",
         !.whiteTimeRemaining =
            IF white
              THEN NewTimeRemaining(g.whiteTimeRemaining, timeSinceLastMove, g.timeControl.increment)
              ELSE g.whiteTimeRemaining,
         !.blackTimeRemaining =
            IF white
              THEN g.blackTimeRemaining
              ELSE NewTimeRemaining(g.blackTimeRemaining, timeSinceLastMove, g.timeControl.increment),
         !.lastMoveTime = now,
         !.pgn = Append(g.pgn, SquareName(from) \o SquareName(to)),
         !.gameData = gameData]

\* (currentPlayer === "white" && isWhitePlayer) || (currentPlayer === "black" && isBlackPlayer)
isPlayersTurn(g, caller) ==
  \/ g.currentPlayer = "white" /\ g.whitePlayerId = caller
  \/ g.currentPlayer = "black" /\ g.blackPlayerId = caller

\* Faulty variant of makeMove: the turn is not checked.
makeMoveAnyTurn(caller, m, from, to, gameData) ==
  IF caller = NoUser
    THEN Throw("Not authenticated")
  ELSE IF FirstGame(m) = 0
    THEN Throw("Chess game not found")
  ELSE IF /\ chessGames[FirstGame(m)].whitePlayerId # caller
          /\ chessGames[FirstGame(m)].blackPlayerId # caller
    THEN Throw("You are not a player in this game")
  ELSE
    /\ Len(chessGames[FirstGame(m)].pgn) < MaxMoves
    /\ chessGames' = [chessGames EXCEPT ![FirstGame(m)] = MovedGame(@, from, to, gameData)]
    /\ matches' = [matches EXCEPT ![m].status = "active", ![m].gameData = gameData]
    /\ result' = "ok"
    /\ UNCHANGED now

\* Faulty variant of makeMove: the gameData is not copied to the match.
makeMoveNoMirror(caller, m, from, to, gameData) ==
  IF caller = NoUser
    THEN Throw("Not authenticated")
  ELSE IF FirstGame(m) = 0
    THEN Throw("Chess game not found")
  ELSE IF /\ chessGames[FirstGame(m)].whitePlayerId # caller
          /\ chessGames[FirstGame(m)].blackPlayerId # caller
    THEN Throw("You are not a player in this game")
  ELSE IF ~isPlayersTurn(chessGames[FirstGame(m)], caller)
    THEN Throw("It's not your turn")
  ELSE
    /\ Len(chessGames[FirstGame(m)].pgn) < MaxMoves
    /\ chessGames' = [chessGames EXCEPT ![FirstGame(m)] = MovedGame(@, from, to, gameData)]
    /\ matches' = [matches EXCEPT ![m].status = "active"]
    /\ result' = "ok"
    /\ UNCHANGED now

makeMove(caller, m, from, to, gameData) ==
  IF caller = NoUser
    THEN Throw("Not authenticated")
  ELSE IF FirstGame(m) = 0
    THEN Throw("Chess game not found")
  ELSE IF /\ chessGames[FirstGame(m)].whitePlayerId # caller
          /\ chessGames[FirstGame(m)].blackPlayerId # caller
    THEN Throw("You are not a player in this game")
  ELSE IF ~isPlayersTurn(chessGames[FirstGame(m)], caller)
    THEN Throw("It's not your turn")
  ELSE
    /\ Len(chessGames[FirstGame(m)].pgn) < MaxMoves
    /\ chessGames' = [chessGames EXCEPT ![FirstGame(m)] = MovedGame(@, from, to, gameData)]
    /\ matches' = [matches EXCEPT ![m].status = "active", ![m].gameData = gameData]
    /\ result' = "ok"
    /\ UNCHANGED now

\* JSON.stringify({...JSON.parse(match.gameData || "{}"), ...fields})
MergedGameData(gameData, fields) ==
  IF gameData = NoGameData THEN fields ELSE fields @@ gameData

startVideoStream(caller, m) ==
  IF caller = NoUser
    THEN Throw("Not authenticated")
  ELSE IF FirstGame(m) = 0
    THEN Throw("Chess game not found")
  ELSE IF /\ chessGames[FirstGame(m)].whitePlayerId # caller
          /\ chessGames[FirstGame(m)].blackPlayerId # caller
    THEN Throw("Only players can start video streams")
  ELSE
    /\ matches' = [matches EXCEPT ![m].gameData =
         MergedGameData(@, [streamActive |-> TRUE, streamStartedBy |-> caller])]
    /\ result' = "ok"
    /\ UNCHANGED <<chessGames, now>>

stopVideoStream(caller, m) ==
  IF caller = NoUser
    THEN Throw("Not authenticated")
  ELSE
    /\ IF MatchExists(m)
         THEN matches' = [matches EXCEPT ![m].gameData =
                MergedGameData(@, [streamActive |-> FALSE, streamStartedBy |-> NoUser])]
         ELSE UNCHANGED matches
    /\ result' = "ok"
    /\ UNCHANGED <<chessGames, now>>

resignGame(caller, m) ==
  IF caller = NoUser
    THEN Throw("Not authenticated")
  ELSE IF FirstGame(m) = 0
    THEN Throw("Chess game not found")
  ELSE IF /\ chessGames[FirstGame(m)].whitePlayerId # caller
          /\ chessGames[FirstGame(m)].blackPlayerId # caller
    THEN Throw("You are not a player in this game")
  ELSE
    /\ chessGames' = [chessGames EXCEPT ![FirstGame(m)].gameStatus = "resignation"]
    /\ matches' = [matches EXCEPT
         ![m].status = "completed",
         ![m].winnerId = IF chessGames[FirstGame(m)].whitePlayerId = caller
                           THEN chessGames[FirstGame(m)].blackPlayerId
                           ELSE chessGames[FirstGame(m)].whitePlayerId,
         ![m].endTime = now]
    /\ result' = "ok"
    /\ UNCHANGED now

offerDraw(caller, m) ==
  IF caller = NoUser
    THEN Throw("Not authenticated")
  ELSE IF FirstGame(m) = 0
    THEN Throw("Chess game not found")
  ELSE IF /\ chessGames[FirstGame(m)].whitePlayerId # caller
          /\ chessGames[FirstGame(m)].blackPlayerId # caller
    THEN Throw("You are not a player in this game")
  ELSE
    /\ matches' = [matches EXCEPT ![m].gameData =
         MergedGameData(@, [drawOfferedBy |-> caller, drawOfferTime |-> now])]
    /\ result' = "ok"
    /\ UNCHANGED <<chessGames, now>>

\* ------------------------------------------- TournamentMatches: generateFirstRound
\* Faulty variant of ActiveParticipants: the status is not looked at.
AllParticipants(ps) == ps

\* tournament.participants.filter(p => p.status === "active")
ActiveParticipants(ps) == SelectSeq(ps, LAMBDA p : p.status = "active")

\* The "Generate First Round" button is rendered for the owner while no match of the
\* tournament shows. A click reads the active participants and, with two or more,
\* enters the loop at i = 0; with fewer it ends with a toast.
generateFirstRound(caller, tournamentId) ==
  /\ tournaments[tournamentId].ownerId = caller
  /\ \A m \in 1..Len(matches) : matches[m].tournamentId # tournamentId
  /\ IF Len(ActiveParticipants(participants)) < 2
       THEN /\ result' = "Need at least 2 active participants to generate matches"
            /\ UNCHANGED generating
       ELSE /\ generating' = Append(generating,
                 [caller |-> caller,
                  tournamentId |-> tournamentId,
                  participants |-> ActiveParticipants(participants),
                  i |-> 0])
            /\ UNCHANGED result
  /\ UNCHANGED <<matches, chessGames, now, participants>>

\* One iteration of the loop of generateFirstRound g: await createMatch(...), i += 2;
\* a createMatch that throws ends the loop in the catch block.
createRoundMatch(g) ==
  LET i == generating[g].i
      active == generating[g].participants
  IN  /\ i < Len(active) - 1
      /\ createMatch(generating[g].caller, generating[g].tournamentId, 1, (i \div 2) + 1,
                     active[i + 1].userId, active[i + 2].userId, NoTime)
      /\ generating' = [generating EXCEPT ![g].i = IF result' = "ok" THEN i + 2 ELSE Len(active)]
      /\ UNCHANGED participants

\* ------------------------------------------------------------ inputs
Square(row, col) == [row |-> row, col |-> col]

\* The gameData the client of match m submits with the move from -> to.
SubmittedGameData(m, from, to) ==
  ClientGameData(IF FirstGame(m) = 0 THEN NoGameData ELSE chessGames[FirstGame(m)].gameData,
                 from, to)

\* The (player1Id, player2Id) pairs createMatch is called with.
PlayerPairs == {<<"X", "Y">>, <<"X", "X">>}
\* The (winnerId, score) arguments endMatch is called with.
EndArgs == {<<NoUser, NoScore>>, <<"Z", [player1Score |-> 1, player2Score |-> 0]>>}
\* The (whitePlayerId, blackPlayerId, timeControl) arguments initializeChessGame is called with.
InitArgs == {<<"Y", "Z", [initialTime |-> -1, increment |-> 0]>>}
\* The (from, to) squares makeMove is called with: the rook move a1a4 through the pawn on a2.
Moves == {<<Square(7, 0), Square(4, 0)>>}

\* The (caller, matchId) pairs of the calls that name a match: every principal on
\* every stored match, and one call that names a match that is not stored.
Calls == (Callers \X (1..Len(matches))) \cup {<<"X", NoSuchMatch>>}
\* The callers of offerDraw, startVideoStream and stopVideoStream.
StreamCalls == {cm \in Calls : cm[1] \in {"X", "Z", NoUser}}

Init ==
  /\ matches = <<>>
  /\ chessGames = <<>>
  /\ now = 1000
  /\ result = "ok"
  /\ participants = <<>>
  /\ generating = <<>>
  /\ client = NotMounted
  /\ pieces = InitialPieces

\* Every operation, with the clock standing still.
Next ==
  \/ /\ Len(matches) < MaxMatches
     /\ \E c \in Callers, tid \in DOMAIN tournaments, pp \in PlayerPairs :
          createMatch(c, tid, 1, 1, pp[1], pp[2], NoTime)
     /\ UNCHANGED <<participants, generating, client, pieces>>
  \/ /\ \E cm \in Calls : startMatch(cm[1], cm[2])
     /\ UNCHANGED <<participants, generating, client, pieces>>
  \/ /\ \E cm \in Calls, e \in EndArgs : endMatch(cm[1], cm[2], e[1], e[2])
     /\ UNCHANGED <<participants, generating, client, pieces>>
  \/ /\ \E c \in Callers, m \in 1..Len(matches), a \in InitArgs :
          initializeChessGame(c, m, a[1], a[2], a[3])
     /\ UNCHANGED <<participants, generating, client, pieces>>
  \/ /\ \E cm \in Calls, mv \in Moves :
          makeMove(cm[1], cm[2], mv[1], mv[2], SubmittedGameData(cm[2], mv[1], mv[2]))
     /\ UNCHANGED <<participants, generating, client, pieces>>
  \/ /\ \E cm \in Calls : resignGame(cm[1], cm[2])
     /\ UNCHANGED <<participants, generating, client, pieces>>
  \/ /\ \E cm \in StreamCalls : offerDraw(cm[1], cm[2])
     /\ UNCHANGED <<participants, generating, client, pieces>>
  \/ /\ \E cm \in StreamCalls : startVideoStream(cm[1], cm[2])
     /\ UNCHANGED <<participants, generating, client, pieces>>
  \/ /\ \E cm \in StreamCalls : stopVideoStream(cm[1], cm[2])
     /\ UNCHANGED <<participants, generating, client, pieces>>

Spec == Init /\ [][Next]_vars

\* The time control initializeChessGame is called with in SpecClock: one second, and
\* two seconds of increment, so that a move can take longer than the time remaining.
ClockInitArgs == {<<"X", "Y", [initialTime |-> 1, increment |-> 2]>>}
\* The moves of SpecClock: e2e4 and e7e5.
ClockMoves == {<<Square(6, 4), Square(4, 4)>>, <<Square(1, 4), Square(3, 4)>>}

\* One chess match between X and Y, played while the clock moves.
NextClock ==
  \/ /\ \E t \in Times : Tick(t)
     /\ UNCHANGED <<participants, generating, client, pieces>>
  \/ /\ Len(matches) < MaxMatches
     /\ \E c \in Callers : createMatch(c, 1, 1, 1, "X", "Y", NoTime)
     /\ UNCHANGED <<participants, generating, client, pieces>>
  \/ /\ \E cm \in Calls : startMatch(cm[1], cm[2])
     /\ UNCHANGED <<participants, generating, client, pieces>>
  \/ /\ \E cm \in Calls : endMatch(cm[1], cm[2], NoUser, NoScore)
     /\ UNCHANGED <<participants, generating, client, pieces>>
  \/ /\ \E c \in Callers, m \in 1..Len(matches), a \in ClockInitArgs :
          initializeChessGame(c, m, a[1], a[2], a[3])
     /\ UNCHANGED <<participants, generating, client, pieces>>
  \/ /\ \E cm \in Calls, mv \in ClockMoves :
          makeMove(cm[1], cm[2], mv[1], mv[2], SubmittedGameData(cm[2], mv[1], mv[2]))
     /\ UNCHANGED <<participants, generating, client, pieces>>
  \/ /\ \E cm \in Calls : resignGame(cm[1], cm[2])
     /\ UNCHANGED <<participants, generating, client, pieces>>

SpecClock == Init /\ [][NextClock]_vars

\* The user ids of the tournament's participants, in registration order.
Entrants == <<"A", "B", "C", "D", "E", "F">>
\* The status values of a tournamentUsers document the client tells apart.
ParticipantStatuses == {"active", "registered", "kicked"}
\* The participant lists getTournament returns: registerForTournament registers a user once.
ParticipantLists ==
  UNION {{[k \in 1..n |-> [userId |-> Entrants[k], status |-> st[k]]] :
            st \in [1..n -> ParticipantStatuses]} : n \in 0..MaxParticipants}

InitBracket ==
  /\ matches = <<>>
  /\ chessGames = <<>>
  /\ now = 1000
  /\ result = "ok"
  /\ participants \in ParticipantLists
  /\ generating = <<>>
  /\ client = NotMounted
  /\ pieces = InitialPieces

\* The owner of tournament 1 generates its first round, possibly clicking twice
\* before the first match shows.
NextBracket ==
  \/ /\ Len(generating) < MaxGenerations
     /\ \E c \in Callers : generateFirstRound(c, 1)
     /\ UNCHANGED <<client, pieces>>
  \/ /\ Len(matches) < MaxBracketMatches
     /\ \E g \in 1..Len(generating) : createRoundMatch(g)
     /\ UNCHANGED <<client, pieces>>

SpecBracket == InitBracket /\ [][NextBracket]_vars

\* ------------------------------------- components/ChessGame.tsx (handlers)
\* MatchView renders <ChessGame> for a chess match that is not "scheduled";
\* the useState initial values.
mount(user) ==
  /\ ~client.mounted
  /\ MatchExists(ViewedMatch)
  /\ tournaments[matches[ViewedMatch].tournamentId].gameType = "chess"
  /\ matches[ViewedMatch].status # "scheduled"
  /\ client' = [mounted |-> TRUE,
                user |-> user,
                isSpectator |-> /\ matches[ViewedMatch].player1Id # user
                                /\ matches[ViewedMatch].player2Id # user,
                chessGame |-> NoDoc,
                board |-> initialBoardRefs,
                selectedSquare |-> NoSquare,
                currentPlayer |-> "white",
                gameStatus |-> "active",
                moveHistory |-> <<>>,
                whiteTime |-> 600,
                blackTime |-> 600,
                submissions |-> 0]
  /\ UNCHANGED <<matches, chessGames, now, result, participants, generating, pieces>>

\* The effect on [chessGame]: the query delivered a new document.
loadGameState ==
  /\ client.mounted
  /\ FirstGame(ViewedMatch) # 0
  /\ LET chessGame == chessGames[FirstGame(ViewedMatch)]
         gameData == chessGame.gameData
         hasBoard == "board" \in DOMAIN gameData
     IN  /\ chessGame # client.chessGame
         /\ client' = [client EXCEPT
               !.chessGame = chessGame,
               !.board = IF hasBoard THEN ParsedRefs(gameData.board) ELSE @,
               !.currentPlayer = chessGame.currentPlayer,
               !.gameStatus = chessGame.gameStatus,
               !.whiteTime = chessGame.whiteTimeRemaining,
               !.blackTime = chessGame.blackTimeRemaining,
               !.moveHistory = IF "moveHistory" \in DOMAIN gameData
                                 THEN gameData.moveHistory ELSE @]
         /\ pieces' = IF hasBoard THEN ParsedPieces(pieces, gameData.board) ELSE pieces
  /\ UNCHANGED <<matches, chessGames, now, result, participants, generating>>

\* Faulty variant of timerTick: the countdown reaching zero written to the game.
timerTickPersisted ==
  /\ client.mounted
  /\ client.gameStatus = "active"
  /\ LET white == client.currentPlayer = "white"
         prev == IF white THEN client.whiteTime ELSE client.blackTime
     IN  /\ prev <= MaxCountdown
         /\ client' = IF prev <= 1
                        THEN IF white
                               THEN [client EXCEPT !.gameStatus = "checkmate", !.whiteTime = 0]
                               ELSE [client EXCEPT !.gameStatus = "checkmate", !.blackTime = 0]
                      ELSE IF white THEN [client EXCEPT !.whiteTime = prev - 1]
                      ELSE [client EXCEPT !.blackTime = prev - 1]
         /\ chessGames' = IF prev <= 1 /\ FirstGame(ViewedMatch) # 0
                            THEN [chessGames EXCEPT ![FirstGame(ViewedMatch)].gameStatus = "timeout"]
                            ELSE chessGames
  /\ UNCHANGED <<matches, now, result, participants, generating, pieces>>

\* One firing of the setInterval callback of the timer effect, which runs while
\* gameStatus is 'active'. The countdown is followed from MaxCountdown down.
timerTick ==
  /\ client.mounted
  /\ client.gameStatus = "active"
  /\ LET white == client.currentPlayer = "white"
         prev == IF white THEN client.whiteTime ELSE client.blackTime
     IN  /\ prev <= MaxCountdown
         /\ client' = IF prev <= 1
                        THEN IF white
                               THEN [client EXCEPT !.gameStatus = "checkmate", !.whiteTime = 0]
                               ELSE [client EXCEPT !.gameStatus = "checkmate", !.blackTime = 0]
                      ELSE IF white THEN [client EXCEPT !.whiteTime = prev - 1]
                      ELSE [client EXCEPT !.blackTime = prev - 1]
  /\ UNCHANGED <<matches, chessGames, now, result, participants, generating, pieces>>

\* board.map(row => [...row]) with the reference of `from` put on `to`.
MovedRefs(refs, from, to) ==
  [r \in 1..8 |->
     [c \in 1..8 |->
        IF r = to.row + 1 /\ c = to.col + 1 THEN refs[from.row + 1][from.col + 1]
        ELSE IF r = from.row + 1 /\ c = from.col + 1 THEN 0
        ELSE refs[r][c]]]

\* piece.position = clickedSquare; piece.hasMoved = true
MovedPieces(heap, id, to) ==
  [heap EXCEPT ![id] = [@ EXCEPT !.position = to, !.hasMoved = TRUE]]

\* The click is the second of a move: handleSquareClick reaches isValidMove and
\* isValidMove accepts.
SubmitsMove(clickedSquare) ==
  /\ client.mounted
  /\ ~client.isSpectator
  /\ client.gameStatus = "active"
  /\ client.selectedSquare # NoSquare
  /\ client.selectedSquare # clickedSquare
  /\ isValidMove(ClientBoard, client.selectedSquare, clickedSquare)

\* handleSquareClick(row, col), the awaited makeMove mutation and what follows
\* it taken as one step.
handleSquareClick(row, col) ==
  LET clickedSquare == Square(row, col)
      selectedSquare == client.selectedSquare
      piece == At(ClientBoard, clickedSquare)
      ownPiece == piece # Null /\ piece.color = client.currentPlayer
      submitted == [client EXCEPT !.submissions = @ + 1]
  IN  /\ client.mounted
      /\ ~client.isSpectator
      /\ client.gameStatus = "active"
      /\ IF selectedSquare = NoSquare
           THEN /\ client' = IF ownPiece THEN [client EXCEPT !.selectedSquare = clickedSquare]
                             ELSE client
                /\ UNCHANGED <<matches, chessGames, now, result, pieces>>
         ELSE IF selectedSquare = clickedSquare
           THEN /\ client' = [client EXCEPT !.selectedSquare = NoSquare]
                /\ UNCHANGED <<matches, chessGames, now, result, pieces>>
         ELSE IF isValidMove(ClientBoard, selectedSquare, clickedSquare)
           THEN LET newBoard == MovedRefs(client.board, selectedSquare, clickedSquare)
                    newPieces == MovedPieces(pieces, At(client.board, selectedSquare),
                                             clickedSquare)
                    newMoveHistory ==
                      Append(client.moveHistory,
                             SquareName(selectedSquare) \o "-" \o SquareName(clickedSquare))
                IN  /\ client.submissions < MaxSubmissions
                    /\ pieces' = newPieces
                    /\ makeMove(client.user, ViewedMatch, selectedSquare, clickedSquare,
                                [board |-> Deref(newPieces, newBoard),
                                 moveHistory |-> newMoveHistory])
                    /\ client' = IF result' = "ok"
                                   THEN [submitted EXCEPT
                                           !.board = newBoard,
                                           !.moveHistory = newMoveHistory,
                                           !.currentPlayer =
                                              IF @ = "white" THEN "black" ELSE "white",
                                           !.selectedSquare = NoSquare]
                                 ELSE submitted
         ELSE /\ client' = [client EXCEPT !.selectedSquare =
                               IF ownPiece THEN clickedSquare ELSE NoSquare]
              /\ UNCHANGED <<matches, chessGames, now, result, pieces>>
      /\ UNCHANGED <<participants, generating>>

\* ---- the component with its server
\* A board holding the pieces ps and nothing else.
BoardOf(ps) ==
  [r \in 1..8 |->
     [c \in 1..8 |->
        IF \E p \in ps : p.position = Square(r - 1, c - 1)
          THEN CHOOSE p \in ps : p.position = Square(r - 1, c - 1)
          ELSE Null]]

PieceTypes == {"pawn", "rook", "knight", "bishop", "queen", "king"}
Colors == {"white", "black"}

\* The piece whose moves are looked at: any piece in mid-board, a pawn also on
\* either start row.
Subjects ==
  {Piece(t, k, 4, 3) : t \in PieceTypes, k \in Colors}
    \cup {Piece("pawn", k, r, 3) : k \in Colors, r \in {1, 6}}

\* The pieces standing around it: in front of and beside the pawns, on the
\* rank, file and diagonals of the mid-board piece, a knight's move from it.
Bystanders ==
  {Piece("pawn", "black", 5, 3), Piece("pawn", "white", 2, 3),
   Piece("knight", "black", 5, 4), Piece("bishop", "white", 4, 5),
   Piece("knight", "white", 5, 2), Piece("rook", "black", 2, 4)}

\* The boards a caller of makeMove stores as gameData.board.
TestBoards ==
  {BoardOf({s} \cup bs) :
     s \in Subjects, bs \in {{}, Bystanders}}

\* The timeControl arguments of the initializeChessGame call in front of the client.
ClientInitArgs == {<<"X", "Y", [initialTime |-> MaxCountdown, increment |-> 0]>>}

NextClient ==
  \/ /\ Len(matches) < MaxMatches
     /\ createMatch("O", 1, 1, 1, "X", "Y", NoTime)
     /\ UNCHANGED <<participants, generating, client, pieces>>
  \/ /\ \E a \in ClientInitArgs : initializeChessGame("X", ViewedMatch, a[1], a[2], a[3])
     /\ UNCHANGED <<participants, generating, client, pieces>>
  \/ /\ \E b \in TestBoards :
          makeMove("X", ViewedMatch, Square(6, 4), Square(4, 4),
                   [board |-> b, moveHistory |-> <<"e2-e4">>])
     /\ UNCHANGED <<participants, generating, client, pieces>>
  \/ \E user \in {"Y", "Z"} : mount(user)
  \/ loadGameState
  \/ timerTick
  \/ \E row \in 0..7, col \in 0..7 : handleSquareClick(row, col)

SpecClient == Init /\ [][NextClient]_vars

\* ------------------------------------------------------------ properties
AllMoves == Moves \cup ClockMoves

\* Game i took a move in this step: makeMove alone writes pgn, one entry a call.
Moved(i) == Len(chessGames'[i].pgn) = Len(chessGames[i].pgn) + 1

Other(color) == IF color = "white" THEN "black" ELSE "white"

\* C1: a match whose status is completed or cancelled never has its status
\* changed again, by any operation.
C1_StatusTerminal ==
  [][\A m \in 1..Len(matches) :
       matches[m].status \in {"completed", "cancelled"}
         => matches'[m].status = matches[m].status]_vars

\* C2: a start call on a match that is not scheduled fails and leaves the
\* match's status and startTime and the set of game sessions unchanged.
C2_StartRequiresScheduled ==
  [][\A c \in Callers, m \in 1..Len(matches) :
       (startMatch(c, m) /\ matches[m].status # "scheduled")
         => /\ result' # "ok"
            /\ matches'[m].status = matches[m].status
            /\ matches'[m].startTime = matches[m].startTime
            /\ chessGames' = chessGames]_vars

\* C3: in every reachable state there is at most one chessGames record per matchId.
C3_OneSessionPerMatch ==
  \A i, j \in 1..Len(chessGames) :
     chessGames[i].matchId = chessGames[j].matchId => i = j

\* C4: makeMove on a match that is not active, or on a game whose gameStatus is
\* not active, fails and changes no field of the match or of the game.
C4_MoveRequiresActive ==
  [][\A c \in Callers, m \in 1..Len(matches), mv \in AllMoves :
       (/\ FirstGame(m) # 0
        /\ \/ matches[m].status # "active"
           \/ chessGames[FirstGame(m)].gameStatus # "active"
        /\ makeMove(c, m, mv[1], mv[2], SubmittedGameData(m, mv[1], mv[2])))
         => /\ result' # "ok"
            /\ UNCHANGED <<matches, chessGames>>]_vars

\* C5: makeMove is accepted only from the white player while white is to move or
\* from the black player while black is to move; any other caller is rejected, an
\* authenticated one with an authorization error, and neither table changes.
C5_TurnOwnership ==
  [][\A c \in Callers, m \in 1..Len(matches), mv \in AllMoves :
       (/\ FirstGame(m) # 0
        /\ ~ \/ /\ chessGames[FirstGame(m)].currentPlayer = "white"
                /\ chessGames[FirstGame(m)].whitePlayerId = c
             \/ /\ chessGames[FirstGame(m)].currentPlayer = "black"
                /\ chessGames[FirstGame(m)].blackPlayerId = c
        /\ makeMove(c, m, mv[1], mv[2], SubmittedGameData(m, mv[1], mv[2])))
         => /\ result' # "ok"
            /\ c \in Users =>
                 result' \in {"You are not a player in this game", "It's not your turn"}
            /\ UNCHANGED <<matches, chessGames>>]_vars

\* C5 witness: the player who has just moved tried to move again and was refused.
C5_Witness ==
  /\ result = "It's not your turn"
  /\ \E i \in 1..Len(chessGames) :
       /\ Len(chessGames[i].pgn) = 1
       /\ chessGames[i].whitePlayerId # chessGames[i].blackPlayerId

\* C6: an accepted makeMove hands the turn of its game to the other color, once;
\* no other step changes the currentPlayer of any game.
C6_TurnFlipsOncePerMove ==
  [][\A i \in 1..Len(chessGames) :
       chessGames'[i].currentPlayer =
         IF \E c \in Callers, m \in 1..Len(matches), mv \in AllMoves :
              /\ Moved(i)
              /\ result' = "ok"
              /\ FirstGame(m) = i
              /\ makeMove(c, m, mv[1], mv[2], SubmittedGameData(m, mv[1], mv[2]))
           THEN Other(chessGames[i].currentPlayer)
           ELSE chessGames[i].currentPlayer]_vars

\* C6 witness: a game two moves old is white's again, on a match on which a draw
\* was offered and a video stream stopped after the moves.
C6_Witness ==
  \E i \in 1..Len(chessGames) :
     /\ Len(chessGames[i].pgn) = 2
     /\ chessGames[i].currentPlayer = "white"
     /\ "drawOfferedBy" \in DOMAIN matches[chessGames[i].matchId].gameData
     /\ "streamActive" \in DOMAIN matches[chessGames[i].matchId].gameData

\* The mover's clock before and after a step in which game i moved.
MoverBefore(i) ==
  IF chessGames[i].currentPlayer = "white"
    THEN chessGames[i].whiteTimeRemaining ELSE chessGames[i].blackTimeRemaining

MoverAfter(i) ==
  IF chessGames[i].currentPlayer = "white"
    THEN chessGames'[i].whiteTimeRemaining ELSE chessGames'[i].blackTimeRemaining

C8_OnlyMoverClock ==
  [][\A i \in 1..Len(chessGames) :
       Moved(i) =>
         /\ chessGames'[i].lastMoveTime = now
         /\ IF chessGames[i].currentPlayer = "white"
              THEN chessGames'[i].blackTimeRemaining = chessGames[i].blackTimeRemaining
              ELSE chessGames'[i].whiteTimeRemaining = chessGames[i].whiteTimeRemaining]_vars

\* C8 witness: after white's and black's moves, made 2.5 seconds after the game
\* began, both clocks differ from the initial time and lastMoveTime is the call's.
C8_Witness ==
  \E i \in 1..Len(chessGames) :
     /\ Len(chessGames[i].pgn) = 2
     /\ chessGames[i].whiteTimeRemaining = 603
     /\ chessGames[i].blackTimeRemaining = 605
     /\ chessGames[i].lastMoveTime = 3500

\* C9: whiteTimeRemaining and blackTimeRemaining are never negative.
C9_ClocksNonNegative ==
  \A i \in 1..Len(chessGames) :
     /\ chessGames[i].whiteTimeRemaining >= 0
     /\ chessGames[i].blackTimeRemaining >= 0

\* C10: a move the rules engine rejects for the game's current board and the
\* color to move is refused by makeMove, and neither table changes.
C10_InvalidMoveRejected ==
  [][\A c \in Callers, m \in 1..Len(matches), mv \in AllMoves :
       (/\ FirstGame(m) # 0
        /\ LET board == LoadedBoard(chessGames[FirstGame(m)].gameData)
           IN  \/ At(board, mv[1]) = Null
               \/ At(board, mv[1]).color # chessGames[FirstGame(m)].currentPlayer
               \/ ~isValidMove(board, mv[1], mv[2])
        /\ makeMove(c, m, mv[1], mv[2], SubmittedGameData(m, mv[1], mv[2])))
         => /\ result' # "ok"
            /\ UNCHANGED <<matches, chessGames>>]_vars

\* C11: a successful resignGame by caller c sets the game's gameStatus to resignation
\* and completes the match with the other player of the match, never c, as winner.
C11_ResignerNeverWins ==
  [][\A c \in Users, m \in 1..Len(matches) :
       (/\ FirstGame(m) # 0
        /\ result' = "ok"
        /\ resignGame(c, m))
         => /\ chessGames'[FirstGame(m)].gameStatus = "resignation"
            /\ matches'[m].status = "completed"
            /\ matches'[m].winnerId # c
            /\ matches'[m].winnerId \in {matches[m].player1Id, matches[m].player2Id}]_vars

\* C12: a match's winnerId, when set, is the match's player1Id or player2Id.
C12_WinnerIsAPlayer ==
  \A m \in 1..Len(matches) :
     matches[m].winnerId # NoUser
       => matches[m].winnerId \in {matches[m].player1Id, matches[m].player2Id}

\* C13: only a completed match carries a winnerId.
C13_WinnerOnlyWhenCompleted ==
  \A m \in 1..Len(matches) :
     matches[m].winnerId # NoUser => matches[m].status = "completed"

\* C14: endMatch and resignGame on a completed match fail and leave the match's
\* winnerId, score and endTime as first recorded.
C14_EndIsTerminal ==
  [][\A c \in Callers, m \in 1..Len(matches) :
       (/\ matches[m].status = "completed"
        /\ \/ resignGame(c, m)
           \/ \E e \in EndArgs : endMatch(c, m, e[1], e[2]))
         => /\ result' # "ok"
            /\ matches'[m].winnerId = matches[m].winnerId
            /\ matches'[m].score = matches[m].score
            /\ matches'[m].endTime = matches[m].endTime]_vars

\* C15: of two makeMove calls the player to move submits at once, which the
\* transactions run one after the other, at most one is accepted: once a makeMove of
\* caller c is accepted, c no longer holds the turn, so that the second is refused.
C15_OneMovePerTurn ==
  [][\A c \in Users, m \in 1..Len(matches), mv \in AllMoves :
       (/\ FirstGame(m) # 0
        /\ result' = "ok"
        /\ Moved(FirstGame(m))
        /\ makeMove(c, m, mv[1], mv[2], SubmittedGameData(m, mv[1], mv[2])))
         => ~isPlayersTurn(chessGames'[FirstGame(m)], c)]_vars

\* C18: every game's whitePlayerId is its match's player1Id and its blackPlayerId
\* the match's player2Id.
C18_SessionPlayersAreMatchPlayers ==
  \A i \in 1..Len(chessGames) :
     /\ chessGames[i].whitePlayerId = matches[chessGames[i].matchId].player1Id
     /\ chessGames[i].blackPlayerId = matches[chessGames[i].matchId].player2Id

\* C19: a successful startMatch on a scheduled match sets status active and startTime
\* now; for a chess tournament it inserts one game with white to move, gameStatus
\* active, 600 seconds on both clocks, 5 seconds of increment and no moves; for any
\* other game type it inserts no game.
C19_StartCreatesDefaultSession ==
  [][\A c \in Users, m \in 1..Len(matches) :
       (/\ matches[m].status = "scheduled"
        /\ result' = "ok"
        /\ startMatch(c, m))
         => /\ matches'[m].status = "active"
            /\ matches'[m].startTime = now
            /\ IF tournaments[matches[m].tournamentId].gameType = "chess"
                 THEN /\ Len(chessGames') = Len(chessGames) + 1
                      /\ SubSeq(chessGames', 1, Len(chessGames)) = chessGames
                      /\ LET g == chessGames'[Len(chessGames')]
                         IN  /\ g.matchId = m
                             /\ g.currentPlayer = "white"
                             /\ g.gameStatus = "active"
                             /\ g.whiteTimeRemaining = 600
                             /\ g.blackTimeRemaining = 600
                             /\ g.timeControl.increment = 5
                             /\ g.pgn = <<>>
                 ELSE chessGames' = chessGames]_vars

\* C19 witness: a chess match started once, active since the time of the call, with
\* its one game untouched.
C19_Witness ==
  /\ result = "ok"
  /\ \E m \in 1..Len(matches) :
       /\ matches[m].status = "active"
       /\ matches[m].startTime = now
       /\ Len(chessGames) = 1
       /\ chessGames[1].matchId = m
       /\ chessGames[1].pgn = <<>>
       /\ chessGames[1].whiteTimeRemaining = 600
       /\ chessGames[1].timeControl.increment = 5

\* C20: startMatch on a match that already has a game fails, inserts no game and
\* leaves the match as it was.
C20_StartRejectsExistingSession ==
  [][\A c \in Callers, m \in 1..Len(matches) :
       (/\ FirstGame(m) # 0
        /\ startMatch(c, m))
         => /\ result' # "ok"
            /\ UNCHANGED <<matches, chessGames>>]_vars

\* The active participants of the tournament, in registration order.
Active == SelectSeq(participants, LAMBDA q : q.status = "active")

\* The players of match k.
Paired(k) == {matches[k].player1Id, matches[k].player2Id}

\* C16: one generation over the active participants p[1..n] in registration order
\* creates n \div 2 matches of round 1, the k-th with matchNumber k, player1 p[2k-1]
\* and player2 p[2k]; with odd n the last participant is in no match, no participant
\* is in two matches, and a participant who is not active is in none.
C16_FirstRoundPairing ==
  LET n == Len(Active)
      finished ==
        \/ /\ Len(generating) = 1
           /\ generating[1].i >= Len(generating[1].participants) - 1
        \/ /\ Len(generating) = 0
           /\ result = "Need at least 2 active participants to generate matches"
  IN  finished =>
        /\ Len(matches) = n \div 2
        /\ \A k \in 1..Len(matches) :
             /\ matches[k].round = 1
             /\ matches[k].matchNumber = k
             /\ matches[k].player1Id = Active[2 * k - 1].userId
             /\ matches[k].player2Id = Active[2 * k].userId
        /\ n % 2 = 1 => \A k \in 1..Len(matches) : Active[n].userId \notin Paired(k)
        /\ \A j, k \in 1..Len(matches) :
             /\ matches[k].player1Id # matches[k].player2Id
             /\ j # k => Paired(j) \cap Paired(k) = {}
        /\ \A q \in 1..Len(participants), k \in 1..Len(matches) :
             participants[q].status # "active" => participants[q].userId \notin Paired(k)

\* C16 witness: of five participants, the second kicked and the rest active, one
\* generation has paired (A, C) and (D, E).
C16_Witness ==
  /\ Len(participants) = 5
  /\ participants[2].status = "kicked"
  /\ Len(Active) = 4
  /\ Len(generating) = 1
  /\ generating[1].i = 4
  /\ Len(matches) = 2
  /\ matches[2].player1Id = "D"

\* C17: no two matches of one tournament have the same round and matchNumber.
C17_MatchNumberUnique ==
  \A j, k \in 1..Len(matches) :
     (/\ matches[j].tournamentId = matches[k].tournamentId
      /\ matches[j].round = matches[k].round
      /\ matches[j].matchNumber = matches[k].matchNumber) => j = k

\* The caller is refused and neither table changes.
Rejected == result' # "ok" /\ UNCHANGED <<matches, chessGames>>

\* C21: createMatch and endMatch succeed only for the tournament's owner, startMatch
\* only for the owner or one of the match's two players, resignGame only for one of
\* the match's two players; any other caller is refused and neither table changes.
C21_RoleAuthorization ==
  [][/\ \A c \in Callers, tid \in DOMAIN tournaments, pp \in PlayerPairs :
          (/\ c # tournaments[tid].ownerId
           /\ createMatch(c, tid, 1, 1, pp[1], pp[2], NoTime)) => Rejected
     /\ \A c \in Callers, m \in 1..Len(matches) :
          LET owner == tournaments[matches[m].tournamentId].ownerId
              players == {matches[m].player1Id, matches[m].player2Id}
          IN  /\ (/\ c # owner
                  /\ \E e \in EndArgs : endMatch(c, m, e[1], e[2])) => Rejected
              /\ (/\ c \notin players \cup {owner}
                  /\ startMatch(c, m)) => Rejected
              /\ (/\ c \notin players
                  /\ resignGame(c, m)) => Rejected]_vars

\* The squares of the moves played, as the notation names them.
Notation ==
  (<<Square(6, 4), Square(4, 4)>> :> "e2e4") @@
  (<<Square(1, 4), Square(3, 4)>> :> "e7e5") @@
  (<<Square(7, 0), Square(4, 0)>> :> "a1a4")

C29_PayloadMirrored ==
  [][\A c \in Users, m \in 1..Len(matches), mv \in AllMoves :
       (/\ FirstGame(m) # 0
        /\ result' = "ok"
        /\ Moved(FirstGame(m))
        /\ makeMove(c, m, mv[1], mv[2], SubmittedGameData(m, mv[1], mv[2])))
         => /\ matches'[m].gameData = SubmittedGameData(m, mv[1], mv[2])
            /\ chessGames'[FirstGame(m)].gameData = SubmittedGameData(m, mv[1], mv[2])
            /\ matches'[m].gameData = chessGames'[FirstGame(m)].gameData]_vars

\* C29 witness: after the second move of a game the match and the game hold the
\* same board and the same two entries of move history.
C29_Witness ==
  /\ result = "ok"
  /\ \E i \in 1..Len(chessGames) :
       /\ Len(chessGames[i].pgn) = 2
       /\ "board" \in DOMAIN chessGames[i].gameData
       /\ matches[chessGames[i].matchId].gameData = chessGames[i].gameData
       /\ Len(chessGames[i].gameData.moveHistory) = 2

\* C30: a game is white's to move exactly when its move list has an even number of
\* entries, black's exactly when the number is odd.
C30_TurnParity ==
  \A i \in 1..Len(chessGames) :
     chessGames[i].currentPlayer =
       IF Len(chessGames[i].pgn) % 2 = 0 THEN "white" ELSE "black"

\* C30 witness: of two games of one match the first is one move old and black's, the
\* second has no move and is white's.
C30_Witness ==
  /\ Len(chessGames) = 2
  /\ chessGames[1].matchId = chessGames[2].matchId
  /\ Len(chessGames[1].pgn) = 1
  /\ chessGames[1].currentPlayer = "black"
  /\ chessGames[2].currentPlayer = "white"

\* Some square strictly between from and to, which share a rank, a file or a
\* diagonal, holds a piece.
Blocked(board, from, to) ==
  LET rowStep == Sign(to.row - from.row)
      colStep == Sign(to.col - from.col)
      distance == Max(Abs(to.row - from.row), Abs(to.col - from.col))
  IN  \E k \in 1..(distance - 1) :
        board[from.row + k * rowStep + 1][from.col + k * colStep + 1] # Null

\* The lines a rook, a bishop and a queen move along.
Geometry(type, from, to) ==
  LET straight == from.row = to.row \/ from.col = to.col
      diagonal == Abs(to.row - from.row) = Abs(to.col - from.col)
  IN  CASE type = "rook" -> straight
        [] type = "bishop" -> diagonal
        [] type = "queen" -> straight \/ diagonal

\* C23: for a rook, a bishop or a queen, isValidMove rejects every move that is
\* not along the piece's lines (rank or file, diagonal, either) and every move
\* with an occupied square strictly between source and destination.
C23_SlidingPieces ==
  client.mounted =>
    \A from \in Squares :
      At(ClientBoard, from).type \in {"rook", "bishop", "queen"} =>
        \A to \in Squares :
          (\/ ~Geometry(At(ClientBoard, from).type, from, to)
           \/ Blocked(ClientBoard, from, to))
            => ~isValidMove(ClientBoard, from, to)

\* C23 witness: the component shows a loaded board on which a queen has a free
\* or capturable square on one of its lines behind an occupied square, and the
\* move there is rejected.
C23_Witness ==
  /\ client.mounted
  /\ client.chessGame # NoDoc
  /\ \E from, to \in Squares :
        /\ At(ClientBoard, from).type = "queen"
        /\ Geometry("queen", from, to)
        /\ Blocked(ClientBoard, from, to)
        /\ \/ At(ClientBoard, to) = Null
           \/ At(ClientBoard, to).color # At(ClientBoard, from).color
        /\ ~isValidMove(ClientBoard, from, to)

\* The three pawn moves: one square forward onto an empty square; two squares
\* forward from the start rank (row 6 white, row 1 black) onto an empty square;
\* one square diagonally forward onto a piece of the other color.
PawnRule(board, from, to) ==
  LET pawn == At(board, from)
      target == At(board, to)
      forward == IF pawn.color = "white" THEN -1 ELSE 1
      startRank == IF pawn.color = "white" THEN 6 ELSE 1
  IN  \/ /\ to.col = from.col
         /\ to.row = from.row + forward
         /\ target = Null
      \/ /\ to.col = from.col
         /\ from.row = startRank
         /\ to.row = from.row + 2 * forward
         /\ target = Null
      \/ /\ Abs(to.col - from.col) = 1
         /\ to.row = from.row + forward
         /\ target # Null
         /\ target.color # pawn.color

\* C24: isValidMove accepts a pawn move exactly when it is one of the three pawn
\* moves; the square a two-square advance passes over is not looked at.
C24_PawnMoves ==
  client.mounted =>
    \A from \in Squares :
      At(ClientBoard, from).type = "pawn" =>
        \A to \in Squares : isValidMove(ClientBoard, from, to) <=> PawnRule(ClientBoard, from, to)

\* C24 witness: a loaded board with a pawn on its start rank, a piece on the
\* square in front of it, and the two-square advance over that piece accepted.
C24_Witness ==
  /\ client.mounted
  /\ client.chessGame # NoDoc
  /\ \E from \in Squares :
        LET pawn == At(ClientBoard, from)
            forward == IF pawn.color = "white" THEN -1 ELSE 1
        IN  /\ pawn.type = "pawn"
            /\ from.row = (IF pawn.color = "white" THEN 6 ELSE 1)
            /\ At(ClientBoard, Square(from.row + forward, from.col)) # Null
            /\ isValidMove(ClientBoard, from, Square(from.row + 2 * forward, from.col))

\* The destination does not hold a piece of the mover's color.
NotOwn(board, from, to) ==
  At(board, to) = Null \/ At(board, to).color # At(board, from).color

\* C26: isValidMove accepts a knight move exactly when (|row change|, |column
\* change|) is (2,1) or (1,2) and the destination is not the mover's own piece,
\* and a king move exactly when both changes are at most 1 and the destination
\* is not the mover's own piece.
C26_KnightAndKing ==
  client.mounted =>
    \A from \in Squares :
      LET type == At(ClientBoard, from).type
      IN  type \in {"knight", "king"} =>
            \A to \in Squares :
              LET rows == Abs(to.row - from.row)
                  cols == Abs(to.col - from.col)
              IN  isValidMove(ClientBoard, from, to)
                    <=> /\ IF type = "knight"
                             THEN <<rows, cols>> \in {<<2, 1>>, <<1, 2>>}
                             ELSE rows <= 1 /\ cols <= 1
                        /\ NotOwn(ClientBoard, from, to)

\* C26 witness: a loaded board on which a knight may capture and a king has a
\* neighbour of its own color it may not move onto.
C26_Witness ==
  /\ client.mounted
  /\ client.chessGame # NoDoc
  /\ \E from, to \in Squares :
        /\ At(ClientBoard, from).type = "knight"
        /\ At(ClientBoard, to) # Null
        /\ isValidMove(ClientBoard, from, to)
  /\ \E from, to \in Squares :
        /\ At(ClientBoard, from).type = "king"
        /\ from # to
        /\ Abs(to.row - from.row) <= 1
        /\ Abs(to.col - from.col) <= 1
        /\ ~isValidMove(ClientBoard, from, to)

\* C25: every move the component submits and the server accepts has, on the
\* board the component shows, a piece of the color to move on its source square
\* and no piece of that color on its destination.
C25_MoverColorChecked ==
  [][\A to \in Squares :
       (/\ SubmitsMove(to)
        /\ handleSquareClick(to.row, to.col)
        /\ result' = "ok")
         => LET source == At(ClientBoard, client.selectedSquare)
                target == At(ClientBoard, to)
            IN  /\ source # Null
                /\ source.color = client.currentPlayer
                /\ target = Null \/ target.color # client.currentPlayer]_vars

\* C27: a move the component makes leaves the board it was made on, and the
\* initial-position board, showing what they showed before.
C27_BoardNotMutated ==
  [][\A to \in Squares :
       (SubmitsMove(to) /\ handleSquareClick(to.row, to.col))
         => /\ Deref(pieces', client.board) = Deref(pieces, client.board)
            /\ Deref(pieces', initialBoardRefs) = Deref(pieces, initialBoardRefs)]_vars

\* C28: a step in which the component's countdown reaches zero and ends the
\* game on screen changes no stored match or game, and a stored game's status
\* becomes "timeout" only in a move whose recomputed clock of the mover is zero.
C28_CountdownAdvisory ==
  [][/\ (/\ client.mounted
          /\ client'.mounted
          /\ client.gameStatus = "active"
          /\ client'.gameStatus = "checkmate"
          /\ (client'.whiteTime = 0 \/ client'.blackTime = 0))
           => UNCHANGED <<matches, chessGames>>
     /\ \A i \in 1..Len(chessGames) :
          (chessGames[i].gameStatus # "timeout" /\ chessGames'[i].gameStatus = "timeout")
            => /\ Moved(i)
               /\ (IF chessGames[i].currentPlayer = "white"
                     THEN chessGames'[i].whiteTimeRemaining
                     ELSE chessGames'[i].blackTimeRemaining) <= 0]_vars

\* C28 witness: the component's countdown stands at zero and the game is over
\* on screen, while the stored game is active with time on both clocks.
C28_Witness ==
  /\ client.mounted
  /\ client.gameStatus = "checkmate"
  /\ client.blackTime = 0
  /\ FirstGame(ViewedMatch) # 0
  /\ chessGames[FirstGame(ViewedMatch)].gameStatus = "active"
  /\ chessGames[FirstGame(ViewedMatch)].blackTimeRemaining > 0
  /\ chessGames[FirstGame(ViewedMatch)].whiteTimeRemaining > 0

====
